---- MODULE Spec2Model ----
(***************************************************************************)
(* Model of the flow-telemetry collector: the ingestion loop of main.rs,   *)
(* the sink write of influx.rs, the address classifier of util.rs and the  *)
(* metrics reporter task spawned by main.                                  *)
(*                                                                         *)
(* Numbers: packets, bytes, vlans, proto and flow times are u32/u64 in the *)
(* program and are modelled as naturals; every value met within the bounds *)
(* is far below 2^63.  time_received is the one u64 whose top bit decides  *)
(* a branch (i64::try_from, main.rs:210), so it is kept as the pair        *)
(* [bit63, low] standing for bit63 * 2^63 + low.                           *)
(***************************************************************************)
EXTENDS Integers, Sequences, FiniteSets, Bags, TLC

VARIABLES
    batch_size,         \* config.batch_size (usize), fixed at startup
    cidr_list,          \* config.cidr_list, fixed at startup
    pc,                 \* position of the ingestion loop
    edge_cache,         \* HashMap<AggregatedKey, CommunicationData>
    size_of_cache,      \* AtomicUsize shared with the reporter
    processing_time,    \* AtomicI64 shared with the reporter
    total_transferred,  \* AtomicU64 shared with the reporter
    BATCH_NUMBER,       \* static AtomicI64 of influx.rs
    batch,              \* the write handed to the sink: its points and batch number
    rpc,                \* position of the reporter task
    r_logged,           \* what the reporter task has loaded for its log line
    consumed,           \* history: messages taken off the bus
    merged,             \* history: bag of records merged since the last cache clear
    attempts,           \* history: batch numbers of the sink writes, in call order
    before,             \* history: cache and size when the current write was started
    last_flush,         \* history: outcome of the latest finished sink write
    round,              \* history: sink writes since the latest consumed message
    sink,               \* history: what the successful writes have stored in the sink
    all_merged,         \* history: bag of all records merged so far
    added,              \* history: bytes added to total_transferred so far
    logged_sum,         \* history: sum of the transferred-bytes values logged so far
    p_etype,            \* classifier harness: address-family tag
    p_addr,             \* classifier harness: raw address bytes
    p_result            \* classifier harness: result of parse_location

vars == << batch_size, cidr_list, pc, edge_cache, size_of_cache, processing_time,
           total_transferred, BATCH_NUMBER, batch, rpc, r_logged, consumed, merged,
           attempts, before, last_flush, round, sink, all_merged, added, logged_sum,
           p_etype, p_addr, p_result >>

loop_vars == << pc, edge_cache, size_of_cache, processing_time, BATCH_NUMBER, batch,
                consumed, merged, attempts, before, last_flush, round >>

parse_vars == << p_etype, p_addr, p_result >>

hist_vars == << sink, all_merged, added, logged_sum >>

(***************************************************************************)
(* Bounds of the model.                                                    *)
(***************************************************************************)
MaxRecords == 3

MaxAttempts == 3

MaxAddrLen == 17

MaxTime == 320

(***************************************************************************)
(* Program constants.                                                      *)
(***************************************************************************)
ETYPE_IPV4 == 2048

ETYPE_IPV6 == 34525

ETYPE_ARP == 2054

IPV4_LEN == 4

IPV6_LEN == 16

seconds_alignment == 60 * 5

SIZE_OF_U32 == 4

(***************************************************************************)
(* util.rs: the address classifier.                                        *)
(* A Result<Option<T>> is [tag, val] with tag "Err", "None" or "Some".     *)
(* An IpAddr is its octets (4 of them: V4, 16: V6).  A Location is         *)
(* [variant, ip]; Outside carries no address.                              *)
(***************************************************************************)
Err == [tag |-> "Err", val |-> <<>>]

None == [tag |-> "None", val |-> <<>>]

Some(v) == [tag |-> "Some", val |-> v]

Inside(ip) == [variant |-> "Inside", ip |-> ip]

Outside == [variant |-> "Outside", ip |-> <<>>]

Pow2(n) == IF n = 0 THEN 1 ELSE IF n = 1 THEN 2 ELSE IF n = 2 THEN 4
           ELSE IF n = 3 THEN 8 ELSE IF n = 4 THEN 16 ELSE IF n = 5 THEN 32
           ELSE IF n = 6 THEN 64 ELSE IF n = 7 THEN 128 ELSE 256

\* IpCidr::contains of the cidr_utils crate: same family, and the first
\* `bits` bits of the address equal those of the network.
CidrContains(cidr, ip) ==
    /\ Len(ip) = Len(cidr.net)
    /\ LET full == cidr.bits \div 8
           rest == cidr.bits % 8
       IN /\ \A i \in 1..full : ip[i] = cidr.net[i]
          /\ rest # 0 =>
                (ip[full + 1] \div Pow2(8 - rest)) = (cidr.net[full + 1] \div Pow2(8 - rest))

parse_ip(etype, addr) ==
    IF etype = ETYPE_IPV4
    THEN IF Len(addr) = IPV4_LEN THEN Some(addr) ELSE Err
    ELSE IF etype = ETYPE_IPV6 /\ Len(addr) = IPV6_LEN
    THEN Some(addr)
    ELSE IF etype = ETYPE_ARP
    THEN None
    ELSE None

\* Variant of parse_location: only the first configured range is tried.
parse_location_FirstRangeOnly(etype, addr, cidrs) ==
    LET r == parse_ip(etype, addr)
    IN IF r.tag = "Err" THEN Err
       ELSE IF r.tag = "Some"
       THEN IF Len(cidrs) > 0 /\ CidrContains(cidrs[1], r.val)
            THEN Some(Inside(r.val))
            ELSE Some(Outside)
       ELSE None

parse_location(etype, addr, cidrs) ==
    LET r == parse_ip(etype, addr)
    IN IF r.tag = "Err" THEN Err
       ELSE IF r.tag = "Some"
       THEN IF \E i \in 1..Len(cidrs) : CidrContains(cidrs[i], r.val)
            THEN Some(Inside(r.val))
            ELSE Some(Outside)
       ELSE None

(***************************************************************************)
(* Configurations and inputs the model draws from.                         *)
(***************************************************************************)
Net10 == [net |-> <<10, 0, 0, 0>>, bits |-> 8]

NetFd == [net |-> <<253, 0, 0, 0, 0, 0, 0, 0, 0, 0, 0, 0, 0, 0, 0, 0>>, bits |-> 8]

Net10_1 == [net |-> <<10, 1, 0, 0>>, bits |-> 12]

CidrLists == { <<>>, <<Net10>>, <<Net10_1, Net10, NetFd>> }

BatchSizes == {0, 100}

V6Inside == <<253, 0, 0, 0, 0, 0, 0, 0, 0, 0, 0, 0, 0, 0, 0, 1>>

V6Outside == <<32, 1, 0, 0, 0, 0, 0, 0, 0, 0, 0, 0, 0, 0, 0, 1>>

\* A decoded FlowMessage together with the length of the payload it came from.
BaseMessage ==
    [etype |-> ETYPE_IPV4, src_addr |-> <<10, 1, 2, 3>>, dst_addr |-> <<8, 8, 8, 8>>,
     src_vlan |-> 1, dst_vlan |-> 2, proto |-> 6, bytes |-> 10, packets |-> 1,
     time_flow_start |-> 299, time_received |-> [bit63 |-> 0, low |-> 7],
     payload_len |-> 36]

Messages ==
    { BaseMessage,
      \* same key as BaseMessage, other counts
      [BaseMessage EXCEPT !.bytes = 20, !.packets = 2, !.time_flow_start = 0,
                          !.payload_len = 46],
      \* differs from BaseMessage in proto only
      [BaseMessage EXCEPT !.proto = 17],
      \* next 300-second window
      [BaseMessage EXCEPT !.time_flow_start = 300],
      \* ARP and unknown family tags
      [BaseMessage EXCEPT !.etype = ETYPE_ARP],
      [BaseMessage EXCEPT !.etype = 0, !.src_addr = <<>>, !.dst_addr = <<>>],
      \* IPv4 tag, source or target of the wrong length
      [BaseMessage EXCEPT !.src_addr = <<10, 1>>],
      [BaseMessage EXCEPT !.dst_addr = <<8, 8, 8, 8, 8>>],
      \* IPv6 tag with 16-byte addresses, and with a 4-byte source
      [BaseMessage EXCEPT !.etype = ETYPE_IPV6, !.src_addr = V6Inside,
                          !.dst_addr = V6Outside],
      [BaseMessage EXCEPT !.etype = ETYPE_IPV6, !.dst_addr = V6Outside, !.bytes = 30],
      \* receive time above i64::MAX
      [BaseMessage EXCEPT !.time_received = [bit63 |-> 1, low |-> 0]] }

Etypes == {ETYPE_IPV4, ETYPE_IPV6, ETYPE_ARP, 0}

AddrOf(n, first) == [i \in 1..n |-> IF i = 1 THEN first ELSE 0]

Addrs == { AddrOf(n, f) : n \in 0..MaxAddrLen, f \in {8, 10, 253} }

(***************************************************************************)
(* main.rs: key derivation and merge.                                      *)
(***************************************************************************)
EmptyCache == [k \in {} |-> [packets |-> 0, bytes |-> 0]]

\* Variant of TimeBucket: the quotient is not scaled back to seconds.
TimeBucket_Unscaled(t) == t \div seconds_alignment

\* u64::div_euclid(seconds_alignment) * seconds_alignment
TimeBucket(t) == (t \div seconds_alignment) * seconds_alignment

AggregatedKey(m, src_location, dst_location) ==
    [time |-> TimeBucket(m.time_flow_start), source |-> src_location,
     target |-> dst_location, src_vlan |-> m.src_vlan, dst_vlan |-> m.dst_vlan,
     proto |-> m.proto]

\* Variant of Merge: an occupied entry is overwritten instead of added to.
Merge_Overwrites(cache, key, m) ==
    [k \in DOMAIN cache \cup {key} |->
        IF k = key THEN [packets |-> m.packets, bytes |-> m.bytes] ELSE cache[k]]

\* edge_cache.entry(key): Occupied adds, Vacant inserts.
Merge(cache, key, m) ==
    IF key \in DOMAIN cache
    THEN [cache EXCEPT ![key] = [packets |-> @.packets + m.packets,
                                 bytes |-> @.bytes + m.bytes]]
    ELSE [k \in DOMAIN cache \cup {key} |->
            IF k = key THEN [packets |-> m.packets, bytes |-> m.bytes] ELSE cache[k]]

\* i64::try_from(u64): fails above i64::MAX, i.e. when bit 63 is set.
TryFromU64(u) == IF u.bit63 = 0 THEN [ok |-> TRUE, val |-> u.low]
                 ELSE [ok |-> FALSE, val |-> 0]

\* std::mem::size_of::<u32>() + payload.len()
RecordSize(m) == SIZE_OF_U32 + m.payload_len

\* Variant of FlushDue: strict comparison.
FlushDue_Strict(size, threshold) == size > threshold

\* size_of_cache.load(..) >= config.batch_size
FlushDue(size, threshold) == size >= threshold

(***************************************************************************)
(* influx.rs: the points of one write.                                     *)
(* format!("{:?}", location) is kept structured: the variant name and the  *)
(* address it carries.  The timestamp key.time * 1_000_000_000 is kept as  *)
(* coefficient and power of ten.                                           *)
(***************************************************************************)
DebugFmt(location) ==
    IF location.variant = "Inside"
    THEN [text |-> "Inside", arg |-> location.ip]
    ELSE [text |-> "Outside", arg |-> <<>>]

\* Variant of DataPoint: the two fields are fed from the wrong counters.
DataPoint_SwapsFields(key, value, batch_number) ==
    [measurement |-> "sflow",
     source |-> DebugFmt(key.source),
     target |-> DebugFmt(key.target),
     src_vlan |-> ToString(key.src_vlan),
     dst_vlan |-> ToString(key.dst_vlan),
     proto |-> ToString(key.proto),
     batch_number |-> ToString(batch_number),
     packets |-> value.bytes,
     bytes |-> value.packets,
     timestamp |-> [coef |-> key.time, exp10 |-> 9]]

DataPoint(key, value, batch_number) ==
    [measurement |-> "sflow",
     source |-> DebugFmt(key.source),
     target |-> DebugFmt(key.target),
     src_vlan |-> ToString(key.src_vlan),
     dst_vlan |-> ToString(key.dst_vlan),
     proto |-> ToString(key.proto),
     batch_number |-> ToString(batch_number),
     packets |-> value.packets,
     bytes |-> value.bytes,
     timestamp |-> [coef |-> key.time, exp10 |-> 9]]

DataPoints(cache, batch_number) ==
    { DataPoint(k, cache[k], batch_number) : k \in DOMAIN cache }

(***************************************************************************)
(* Initial state: main() up to the first loop iteration.                   *)
(***************************************************************************)
NoBatch == [batch_number |-> -1, points |-> {}]

\* The sink stores one row per primary key, the tags and the timestamp of a
\* point (influx.rs:35-38); a later point with the same primary key replaces
\* the row.
EmptySink == [k \in {} |-> [packets |-> 0, bytes |-> 0]]

PrimaryKey(p) ==
    [measurement |-> p.measurement, source |-> p.source, target |-> p.target,
     src_vlan |-> p.src_vlan, dst_vlan |-> p.dst_vlan, proto |-> p.proto,
     batch_number |-> p.batch_number, timestamp |-> p.timestamp]

SinkWrite(rows, points) ==
    [pk \in DOMAIN rows \cup { PrimaryKey(p) : p \in points } |->
        IF \E p \in points : PrimaryKey(p) = pk
        THEN LET p == CHOOSE q \in points : PrimaryKey(q) = pk
             IN [packets |-> p.packets, bytes |-> p.bytes]
        ELSE rows[pk]]

NewRound == [attempts |-> 0, fails |-> 0, crossed |-> FALSE]

Pending == [tag |-> "Pending", val |-> <<>>]

LoopInit ==
    /\ pc = "check"
    /\ edge_cache = EmptyCache
    /\ size_of_cache = 0
    /\ processing_time = 0
    /\ total_transferred = 0
    /\ BATCH_NUMBER = 0
    /\ batch = NoBatch
    /\ rpc = "sleep"
    /\ r_logged = [time |-> 0, size |-> 0, total |-> 0]
    /\ consumed = 0
    /\ merged = EmptyBag
    /\ attempts = <<>>
    /\ before = [cache |-> EmptyCache, size |-> 0]
    /\ last_flush = "none"
    /\ round = NewRound
    /\ sink = EmptySink
    /\ all_merged = EmptyBag
    /\ added = 0
    /\ logged_sum = 0

Init ==
    /\ batch_size \in BatchSizes
    /\ cidr_list = <<Net10_1, Net10, NetFd>>
    /\ LoopInit
    /\ p_etype = 0
    /\ p_addr = <<>>
    /\ p_result = Pending

(***************************************************************************)
(* The ingestion loop, main.rs:144-220.                                    *)
(***************************************************************************)
\* Loop top with the flush not due: go on to consumer.recv().
CheckNotDue ==
    /\ pc = "check"
    /\ ~FlushDue(size_of_cache, batch_size)
    /\ pc' = "recv"
    /\ UNCHANGED << batch_size, cidr_list, edge_cache, size_of_cache, processing_time,
                    total_transferred, BATCH_NUMBER, batch, rpc, r_logged, consumed,
                    merged, attempts, before, last_flush, round, parse_vars, hist_vars >>

\* Variant of StartWrite: the batch number is read but not advanced.
StartWrite_ReusesNumber ==
    /\ pc = "check"
    /\ FlushDue(size_of_cache, batch_size)
    /\ Len(attempts) < MaxAttempts
    /\ batch' = [batch_number |-> BATCH_NUMBER,
                 points |-> DataPoints(edge_cache, BATCH_NUMBER)]
    /\ pc' = "write"
    /\ attempts' = Append(attempts, BATCH_NUMBER)
    /\ before' = [cache |-> edge_cache, size |-> size_of_cache]
    /\ round' = [round EXCEPT !.attempts = @ + 1]
    /\ UNCHANGED << batch_size, cidr_list, edge_cache, size_of_cache, processing_time,
                    total_transferred, BATCH_NUMBER, rpc, r_logged, consumed, merged,
                    last_flush, parse_vars, hist_vars >>

\* Loop top with the flush due: insert_data_into_influx takes the batch number,
\* builds one point per cache entry and awaits client.write.
StartWrite ==
    /\ pc = "check"
    /\ FlushDue(size_of_cache, batch_size)
    /\ BATCH_NUMBER < MaxAttempts
    /\ batch' = [batch_number |-> BATCH_NUMBER,
                 points |-> DataPoints(edge_cache, BATCH_NUMBER)]
    /\ BATCH_NUMBER' = BATCH_NUMBER + 1
    /\ pc' = "write"
    /\ attempts' = Append(attempts, BATCH_NUMBER)
    /\ before' = [cache |-> edge_cache, size |-> size_of_cache]
    /\ round' = [round EXCEPT !.attempts = @ + 1]
    /\ UNCHANGED << batch_size, cidr_list, edge_cache, size_of_cache, processing_time,
                    total_transferred, rpc, r_logged, consumed, merged, last_flush,
                    parse_vars, hist_vars >>

\* Variant of WriteErr: the failure path clears the cache and the counter as well.
WriteErr_ClearsCache ==
    /\ pc = "write"
    /\ pc' = "sleep"
    /\ size_of_cache' = 0
    /\ edge_cache' = EmptyCache
    /\ last_flush' = "failed"
    /\ round' = [round EXCEPT !.fails = @ + 1]
    /\ UNCHANGED << batch_size, cidr_list, processing_time, total_transferred,
                    BATCH_NUMBER, batch, rpc, r_logged, consumed, merged, attempts,
                    before, parse_vars, hist_vars >>

\* Variant of WriteErr: the error is propagated and ends main.
WriteErr_Fatal ==
    /\ pc = "write"
    /\ pc' = "dead"
    /\ last_flush' = "failed"
    /\ round' = [round EXCEPT !.fails = @ + 1]
    /\ UNCHANGED << batch_size, cidr_list, edge_cache, size_of_cache, processing_time,
                    total_transferred, BATCH_NUMBER, batch, rpc, r_logged, consumed,
                    merged, attempts, before, parse_vars, hist_vars >>

\* Variant of WriteErr: the sink stored the batch although the write reported
\* a failure.
WriteErr_PersistsBatch ==
    /\ pc = "write"
    /\ pc' = "sleep"
    /\ last_flush' = "failed"
    /\ round' = [round EXCEPT !.fails = @ + 1]
    /\ sink' = SinkWrite(sink, batch.points)
    /\ UNCHANGED << batch_size, cidr_list, edge_cache, size_of_cache, processing_time,
                    total_transferred, BATCH_NUMBER, batch, rpc, r_logged, consumed,
                    merged, attempts, before, parse_vars, all_merged, added,
                    logged_sum >>

\* The write failed (client.write returned an error, or a point could not be
\* built): log, sleep 5 seconds, continue.
WriteErr ==
    /\ pc = "write"
    /\ pc' = "sleep"
    /\ last_flush' = "failed"
    /\ round' = [round EXCEPT !.fails = @ + 1]
    /\ UNCHANGED << batch_size, cidr_list, edge_cache, size_of_cache, processing_time,
                    total_transferred, BATCH_NUMBER, batch, rpc, r_logged, consumed,
                    merged, attempts, before, parse_vars, hist_vars >>

\* Variant of SleepDone: after the sleep the loop falls through to recv.
SleepDone_ResumesReceiving ==
    /\ pc = "sleep"
    /\ pc' = "recv"
    /\ UNCHANGED << batch_size, cidr_list, edge_cache, size_of_cache, processing_time,
                    total_transferred, BATCH_NUMBER, batch, rpc, r_logged, consumed,
                    merged, attempts, before, last_flush, round, parse_vars, hist_vars >>

\* The 5-second sleep is over: `continue` to the loop top.
SleepDone ==
    /\ pc = "sleep"
    /\ pc' = "check"
    /\ UNCHANGED << batch_size, cidr_list, edge_cache, size_of_cache, processing_time,
                    total_transferred, BATCH_NUMBER, batch, rpc, r_logged, consumed,
                    merged, attempts, before, last_flush, round, parse_vars, hist_vars >>

\* Variant of WriteOk: the counter is reset but the cache is not cleared.
WriteOk_KeepsCache ==
    /\ pc = "write"
    /\ size_of_cache' = 0
    /\ pc' = "recv"
    /\ last_flush' = "ok"
    /\ sink' = SinkWrite(sink, batch.points)
    /\ UNCHANGED << batch_size, cidr_list, edge_cache, processing_time,
                    total_transferred, BATCH_NUMBER, batch, rpc, r_logged, consumed,
                    merged, attempts, before, round, parse_vars, all_merged, added,
                    logged_sum >>

\* Variant of WriteOk: the cache is cleared but the counter is not reset.
WriteOk_KeepsSize ==
    /\ pc = "write"
    /\ edge_cache' = EmptyCache
    /\ pc' = "recv"
    /\ merged' = EmptyBag
    /\ last_flush' = "ok"
    /\ sink' = SinkWrite(sink, batch.points)
    /\ UNCHANGED << batch_size, cidr_list, size_of_cache, processing_time,
                    total_transferred, BATCH_NUMBER, batch, rpc, r_logged, consumed,
                    attempts, before, round, parse_vars, all_merged, added,
                    logged_sum >>

\* The write succeeded: log, reset the size counter, clear the cache, go on to recv.
\* The store of zero and the clear are one step: there is no await between them
\* and only this task can see the cache.
WriteOk ==
    /\ pc = "write"
    /\ size_of_cache' = 0
    /\ edge_cache' = EmptyCache
    /\ pc' = "recv"
    /\ merged' = EmptyBag
    /\ last_flush' = "ok"
    /\ sink' = SinkWrite(sink, batch.points)
    /\ UNCHANGED << batch_size, cidr_list, processing_time, total_transferred,
                    BATCH_NUMBER, batch, rpc, r_logged, consumed, attempts, before,
                    round, parse_vars, all_merged, added,
                    logged_sum >>

\* Variant of RecvErr: the bus error is propagated and ends main.
RecvErr_Fatal ==
    /\ pc = "recv"
    /\ pc' = "dead"
    /\ UNCHANGED << batch_size, cidr_list, edge_cache, size_of_cache, processing_time,
                    total_transferred, BATCH_NUMBER, batch, rpc, r_logged, consumed,
                    merged, attempts, before, last_flush, round, parse_vars, hist_vars >>

\* consumer.recv() returned Err: log and loop.
RecvErr ==
    /\ pc = "recv"
    /\ pc' = "check"
    /\ UNCHANGED << batch_size, cidr_list, edge_cache, size_of_cache, processing_time,
                    total_transferred, BATCH_NUMBER, batch, rpc, r_logged, consumed,
                    merged, attempts, before, last_flush, round, parse_vars, hist_vars >>

\* Variant of RecvNoPayload: the message is skipped and the loop goes on.
RecvNoPayload_Skips ==
    /\ pc = "recv"
    /\ consumed < MaxRecords
    /\ consumed' = consumed + 1
    /\ round' = NewRound
    /\ pc' = "check"
    /\ UNCHANGED << batch_size, cidr_list, edge_cache, size_of_cache, processing_time,
                    total_transferred, BATCH_NUMBER, batch, rpc, r_logged, merged,
                    attempts, before, last_flush, parse_vars, hist_vars >>

\* A message without payload: panic!("Unable to decode.").
RecvNoPayload ==
    /\ pc = "recv"
    /\ consumed < MaxRecords
    /\ consumed' = consumed + 1
    /\ round' = NewRound
    /\ pc' = "dead"
    /\ UNCHANGED << batch_size, cidr_list, edge_cache, size_of_cache, processing_time,
                    total_transferred, BATCH_NUMBER, batch, rpc, r_logged, merged,
                    attempts, before, last_flush, parse_vars, hist_vars >>

\* FlowMessage::decode(payload)? failed: main returns the error.
RecvDecodeErr ==
    /\ pc = "recv"
    /\ consumed < MaxRecords
    /\ consumed' = consumed + 1
    /\ round' = NewRound
    /\ pc' = "dead"
    /\ UNCHANGED << batch_size, cidr_list, edge_cache, size_of_cache, processing_time,
                    total_transferred, BATCH_NUMBER, batch, rpc, r_logged, merged,
                    attempts, before, last_flush, parse_vars, hist_vars >>

\* What happens to a decoded message m after total_transferred.fetch_add:
\* "fatal" (a `?` returns from main), "drop" (a `continue`) or "merge".
Classify(m, cidrs) ==
    LET src == parse_location(m.etype, m.src_addr, cidrs)
        dst == parse_location(m.etype, m.dst_addr, cidrs)
    IN IF src.tag = "Err" THEN [step |-> "fatal", key |-> <<>>]
       ELSE IF src.tag = "None" THEN [step |-> "drop", key |-> <<>>]
       ELSE IF dst.tag = "Err" THEN [step |-> "fatal", key |-> <<>>]
       ELSE IF dst.tag = "None" THEN [step |-> "drop", key |-> <<>>]
       ELSE [step |-> "merge", key |-> AggregatedKey(m, src.val, dst.val)]

\* Variant of RecvMessage: the bytes are counted after the classification, so
\* a dropped record is not counted.
RecvMessage_CountsAfterClassify(m) ==
    /\ pc = "recv"
    /\ consumed < MaxRecords
    /\ consumed' = consumed + 1
    /\ LET c == Classify(m, cidr_list)
           t == TryFromU64(m.time_received)
       IN IF c.step = "fatal"
          THEN /\ pc' = "dead"
               /\ round' = NewRound
               /\ UNCHANGED << edge_cache, size_of_cache, processing_time, merged,
                               all_merged, total_transferred, added >>
          ELSE IF c.step = "drop"
          THEN /\ pc' = "check"
               /\ round' = NewRound
               /\ UNCHANGED << edge_cache, size_of_cache, processing_time, merged,
                               all_merged, total_transferred, added >>
          ELSE /\ total_transferred' = total_transferred + m.bytes
               /\ added' = added + m.bytes
               /\ edge_cache' = Merge(edge_cache, c.key, m)
               /\ merged' = merged (+) SetToBag({m})
               /\ all_merged' = all_merged (+) SetToBag({m})
               /\ IF t.ok
                  THEN /\ processing_time' = t.val
                       /\ size_of_cache' = size_of_cache + RecordSize(m)
                       /\ round' = [NewRound EXCEPT !.crossed =
                                        /\ ~FlushDue(size_of_cache, batch_size)
                                        /\ FlushDue(size_of_cache', batch_size)]
                       /\ pc' = "check"
                  ELSE /\ pc' = "dead"
                       /\ round' = NewRound
                       /\ UNCHANGED << size_of_cache, processing_time >>
    /\ UNCHANGED << batch_size, cidr_list, BATCH_NUMBER, batch, rpc, r_logged, attempts,
                    before, last_flush, parse_vars, sink, logged_sum >>

\* A message with a payload that decodes to m.
RecvMessage(m) ==
    /\ pc = "recv"
    /\ consumed < MaxRecords
    /\ consumed' = consumed + 1
    /\ total_transferred' = total_transferred + m.bytes
    /\ added' = added + m.bytes
    /\ LET c == Classify(m, cidr_list)
           t == TryFromU64(m.time_received)
       IN IF c.step = "fatal"
          THEN /\ pc' = "dead"
               /\ round' = NewRound
               /\ UNCHANGED << edge_cache, size_of_cache, processing_time, merged,
                               all_merged >>
          ELSE IF c.step = "drop"
          THEN /\ pc' = "check"
               /\ round' = NewRound
               /\ UNCHANGED << edge_cache, size_of_cache, processing_time, merged,
                               all_merged >>
          ELSE /\ edge_cache' = Merge(edge_cache, c.key, m)
               /\ merged' = merged (+) SetToBag({m})
               /\ all_merged' = all_merged (+) SetToBag({m})
               /\ IF t.ok
                  THEN /\ processing_time' = t.val
                       /\ size_of_cache' = size_of_cache + RecordSize(m)
                       /\ round' = [NewRound EXCEPT !.crossed =
                                        /\ ~FlushDue(size_of_cache, batch_size)
                                        /\ FlushDue(size_of_cache', batch_size)]
                       /\ pc' = "check"
                  ELSE /\ pc' = "dead"
                       /\ round' = NewRound
                       /\ UNCHANGED << size_of_cache, processing_time >>
    /\ UNCHANGED << batch_size, cidr_list, BATCH_NUMBER, batch, rpc, r_logged, attempts,
                    before, last_flush, parse_vars, sink, logged_sum >>

(***************************************************************************)
(* The reporter task, main.rs:117-134.  The three loads and the log line   *)
(* are one step, the store of zero is another.                             *)
(***************************************************************************)
ReporterLog ==
    /\ pc # "dead"
    /\ rpc = "sleep"
    /\ r_logged' = [time |-> processing_time, size |-> size_of_cache,
                    total |-> total_transferred]
    /\ rpc' = "reset"
    /\ logged_sum' = logged_sum + total_transferred
    /\ UNCHANGED << batch_size, cidr_list, total_transferred, loop_vars, parse_vars,
                    sink, all_merged, added >>

\* Variant of ReporterReset: only the bytes that were logged are taken off the
\* counter, as an atomic swap would do.
ReporterReset_SubtractsLogged ==
    /\ pc # "dead"
    /\ rpc = "reset"
    /\ total_transferred' = total_transferred - r_logged.total
    /\ rpc' = "sleep"
    /\ UNCHANGED << batch_size, cidr_list, r_logged, loop_vars, parse_vars,
                    hist_vars >>

\* Variant of ReporterReset: the store of zero goes to the size counter.
ReporterReset_ResetsSize ==
    /\ pc # "dead"
    /\ rpc = "reset"
    /\ size_of_cache' = 0
    /\ rpc' = "sleep"
    /\ UNCHANGED << batch_size, cidr_list, r_logged, total_transferred, pc, edge_cache,
                    processing_time, BATCH_NUMBER, batch, consumed, merged, attempts,
                    before, last_flush, round, parse_vars, hist_vars >>

\* total_transferred.store(0), main.rs:132.
ReporterReset ==
    /\ pc # "dead"
    /\ rpc = "reset"
    /\ total_transferred' = 0
    /\ rpc' = "sleep"
    /\ UNCHANGED << batch_size, cidr_list, r_logged, loop_vars, parse_vars,
                    hist_vars >>

Next ==
    \/ CheckNotDue
    \/ StartWrite
    \/ WriteErr
    \/ SleepDone
    \/ WriteOk
    \/ RecvErr
    \/ RecvNoPayload
    \/ RecvDecodeErr
    \/ \E m \in Messages : RecvMessage(m)
    \/ ReporterLog
    \/ ReporterReset

Spec == Init /\ [][Next]_vars

\* The loop with its scheduling: a due flush is started, the awaited write
\* returns with one outcome or the other, and the 5-second sleep ends.
SpecLive ==
    /\ Init
    /\ [][Next]_vars
    /\ WF_vars(StartWrite)
    /\ WF_vars(WriteOk \/ WriteErr)
    /\ WF_vars(SleepDone)

(***************************************************************************)
(* The classifier on its own: every family tag, address and range list.    *)
(***************************************************************************)
InitParse ==
    /\ batch_size \in BatchSizes
    /\ cidr_list \in CidrLists
    /\ LoopInit
    /\ p_etype \in Etypes
    /\ p_addr \in Addrs \cup {<<10, 1, 2, 3>>, <<8, 8, 8, 8>>, V6Inside, V6Outside}
    /\ p_result = Pending

CallParseLocation ==
    /\ p_result = Pending
    /\ p_result' = parse_location(p_etype, p_addr, cidr_list)
    /\ UNCHANGED << batch_size, cidr_list, total_transferred, rpc, r_logged, loop_vars,
                    p_etype, p_addr, hist_vars >>

NextParse == CallParseLocation

SpecParse == InitParse /\ [][NextParse]_vars

(***************************************************************************)
(* Properties.                                                             *)
(***************************************************************************)

\* C1: a failed flush leaves the cache (every key, both counters of every
\* entry) and the approximate size counter exactly as they were when the
\* attempt was started; only the batch sequence number has moved.
C1_FailedFlushKeepsCacheAndSize ==
    pc = "sleep" =>
        /\ edge_cache = before.cache
        /\ size_of_cache = before.size
        /\ BATCH_NUMBER = batch.batch_number + 1

C1_Witness ==
    /\ pc = "sleep"
    /\ Cardinality(DOMAIN edge_cache) >= 2
    /\ size_of_cache >= 100

\* C2: between a failed flush attempt and the next attempt no message is
\* received, nothing is merged and the size counter does not move, however
\* many attempts have failed in a row; the only way on is another attempt.
C2_NoReceiveWhileRetrying ==
    [][ (last_flush = "failed" /\ pc \in {"sleep", "check"}) =>
            /\ pc' \in {"sleep", "check", "write"}
            /\ consumed' = consumed
            /\ merged' = merged
            /\ edge_cache' = edge_cache
            /\ size_of_cache' = size_of_cache
            /\ (pc = "check" /\ pc' # "check") => attempts' # attempts ]_vars

C2_Witness ==
    /\ pc = "check"
    /\ last_flush = "failed"
    /\ round.fails >= 3
    /\ edge_cache # EmptyCache

\* C3: a sink write is only started with the size counter at or above the
\* threshold, and a loop-top check that finds the counter at or above the
\* threshold starts a write before any further message is received.
C3_FlushTrigger ==
    [][ /\ attempts' # attempts => size_of_cache >= batch_size
        /\ (pc = "check" /\ size_of_cache >= batch_size /\ pc' # "check") =>
                (pc' = "write" /\ attempts' # attempts /\ consumed' = consumed)
        /\ (pc = "check" /\ size_of_cache < batch_size) => attempts' = attempts ]_vars

C3_Witness ==
    /\ pc = "write"
    /\ batch_size > 0
    /\ size_of_cache = batch_size
    /\ consumed = 2

\* C4: outside the step that completes a successful write no key leaves the
\* cache and no counter of an entry or the size counter goes down; the step
\* that completes a successful write empties the cache and zeroes the size
\* counter together.
C4_CacheOnlyGrowsUntilFlushed ==
    [][ IF pc = "write" /\ pc' = "recv"
        THEN edge_cache' = EmptyCache /\ size_of_cache' = 0
        ELSE /\ \A k \in DOMAIN edge_cache :
                    /\ k \in DOMAIN edge_cache'
                    /\ edge_cache'[k].packets >= edge_cache[k].packets
                    /\ edge_cache'[k].bytes >= edge_cache[k].bytes
             /\ size_of_cache' >= size_of_cache ]_vars

C4_Witness ==
    /\ pc = "recv"
    /\ last_flush = "ok"
    /\ batch.points # {}
    /\ before.size >= 100
    /\ edge_cache = EmptyCache
    /\ size_of_cache = 0

\* C5: the size counter is non-zero exactly when a record has been merged
\* into the cache since the last successful flush, in every reachable state,
\* those after a fatal termination included.
C5_SizeNonZeroIffMerged ==
    (size_of_cache # 0) <=> (merged # EmptyBag /\ edge_cache # EmptyCache)

\* C6: the batch numbers of the sink writes are 0, 1, 2, ... in call order,
\* failed writes included, so no two writes carry the same number; every
\* point of a write carries the number of that write as its batch_number tag.
C6_BatchNumbersUnique ==
    /\ \A i \in 1..Len(attempts) : attempts[i] = i - 1
    /\ \A i, j \in 1..Len(attempts) : i < j => attempts[i] < attempts[j]
    /\ BATCH_NUMBER = Len(attempts)
    /\ attempts # <<>> =>
            /\ batch.batch_number = attempts[Len(attempts)]
            /\ \A p \in batch.points : p.batch_number = ToString(attempts[Len(attempts)])

C6_Witness ==
    /\ Len(attempts) >= 3
    /\ round.fails >= 1
    /\ last_flush = "ok"
    /\ batch.points # {}

\* The key a record is aggregated under: its time bucket, the classification
\* of its two addresses, its vlans and its proto.
RecordKey(r) ==
    [time |-> 300 * (r.time_flow_start \div 300),
     source |-> parse_location(r.etype, r.src_addr, cidr_list).val,
     target |-> parse_location(r.etype, r.dst_addr, cidr_list).val,
     src_vlan |-> r.src_vlan, dst_vlan |-> r.dst_vlan, proto |-> r.proto]

RECURSIVE BagSum(_, _, _)
BagSum(B, S, field) ==
    IF S = {} THEN 0
    ELSE LET r == CHOOSE x \in S : TRUE
         IN B[r] * r[field] + BagSum(B, S \ {r}, field)

\* C7: the cache has exactly one entry per distinct key among the records
\* merged since the last clear, and the entry's packets and bytes are the sums
\* over exactly the records of that key, whatever order they arrived in;
\* records that differ in a key field contribute to different entries.
C7_MergeCorrectness ==
    LET recs == BagToSet(merged)
        of_key(k) == { r \in recs : RecordKey(r) = k }
    IN /\ DOMAIN edge_cache = { RecordKey(r) : r \in recs }
       /\ \A k \in DOMAIN edge_cache :
            /\ edge_cache[k].packets = BagSum(merged, of_key(k), "packets")
            /\ edge_cache[k].bytes = BagSum(merged, of_key(k), "bytes")
       /\ \A r1, r2 \in recs :
            (r1.proto # r2.proto \/ r1.src_vlan # r2.src_vlan \/ r1.dst_vlan # r2.dst_vlan)
                => of_key(RecordKey(r1)) # of_key(RecordKey(r2))

C7_Witness ==
    /\ Cardinality(DOMAIN edge_cache) >= 2
    /\ \E k \in DOMAIN edge_cache : edge_cache[k].packets = 3 /\ edge_cache[k].bytes = 30
    /\ \E k1, k2 \in DOMAIN edge_cache :
            k1.proto # k2.proto /\ [k1 EXCEPT !.proto = k2.proto] = k2

\* The point p carries the fields of key k and the counters of entry v.
PointCarries(p, k, v) ==
    /\ p.source = DebugFmt(k.source)
    /\ p.target = DebugFmt(k.target)
    /\ p.src_vlan = ToString(k.src_vlan)
    /\ p.dst_vlan = ToString(k.dst_vlan)
    /\ p.proto = ToString(k.proto)
    /\ p.timestamp.coef = k.time
    /\ p.packets = v.packets
    /\ p.bytes = v.bytes

\* C8: a sink write offers exactly one point per cache entry, carrying the
\* entry's key fields and counters, so every record merged since the last
\* successful flush is in it; and when a record takes the size counter from
\* below the threshold to at or above it and the sink accepts the write, one
\* write and no more is made before the next message is consumed, holding
\* the entries of all those records.
C8_FlushBatchComplete ==
    /\ pc = "write" =>
            /\ Cardinality(batch.points) = Cardinality(DOMAIN edge_cache)
            /\ \A k \in DOMAIN edge_cache :
                    \E p \in batch.points : PointCarries(p, k, edge_cache[k])
            /\ \A r \in BagToSet(merged) :
                    \E p \in batch.points :
                        /\ p.proto = ToString(r.proto)
                        /\ p.timestamp.coef = 300 * (r.time_flow_start \div 300)
                        /\ p.packets >= r.packets
                        /\ p.bytes >= r.bytes
    /\ (pc = "recv" /\ round.crossed) =>
            /\ round.attempts = round.fails + 1
            /\ before.size >= batch_size
            /\ Cardinality(batch.points) = Cardinality(DOMAIN before.cache)
            /\ \A k \in DOMAIN before.cache :
                    \E p \in batch.points : PointCarries(p, k, before.cache[k])

C8_Witness ==
    /\ pc = "recv"
    /\ round.crossed
    /\ round.attempts = 1
    /\ batch_size = 100
    /\ consumed = 3
    /\ before.size = 120
    /\ Cardinality(batch.points) >= 2

\* C9: parse_location answers an address whose length does not match its
\* family tag (IPv4: 4 bytes, IPv6: 16 bytes) with the error, never with None.
C9_LengthMismatchIsError ==
    (/\ p_result # Pending
     /\ \/ p_etype = ETYPE_IPV4 /\ Len(p_addr) # 4
        \/ p_etype = ETYPE_IPV6 /\ Len(p_addr) # 16)
        => p_result = Err

\* The source or target length of m does not match its IPv4 or IPv6 tag.
Malformed(m) ==
    \/ m.etype = ETYPE_IPV4 /\ (Len(m.src_addr) # 4 \/ Len(m.dst_addr) # 4)
    \/ m.etype = ETYPE_IPV6 /\ (Len(m.src_addr) # 16 \/ Len(m.dst_addr) # 16)

\* C10: receiving a record with a source or target address of the wrong
\* length for its family ends the loop; it is never skipped with the loop
\* going on.
C10_MalformedAddressIsFatal ==
    [][ \A m \in Messages : (Malformed(m) /\ RecvMessage(m)) => pc' = "dead" ]_vars

\* The family tag of m is neither IPv4 nor IPv6: ARP or an unrecognised tag.
NoAddressTag(m) == m.etype # ETYPE_IPV4 /\ m.etype # ETYPE_IPV6

\* C11: receiving a record whose family tag is ARP or unrecognised, whatever
\* its address bytes, leaves the cache, the size counter, the last-processed
\* time and the batch sequence number as they are, adds the record's bytes to
\* the transferred-bytes counter and takes the loop back to the flush check.
C11_DroppedRecordLeavesAggregation ==
    [][ \A m \in Messages : (NoAddressTag(m) /\ RecvMessage(m)) =>
            /\ edge_cache' = edge_cache
            /\ merged' = merged
            /\ size_of_cache' = size_of_cache
            /\ processing_time' = processing_time
            /\ BATCH_NUMBER' = BATCH_NUMBER
            /\ attempts' = attempts
            /\ total_transferred' = total_transferred + m.bytes
            /\ pc' = "check" ]_vars

C11_Witness ==
    /\ pc = "check"
    /\ consumed = 2
    /\ added = 20
    /\ Cardinality(DOMAIN edge_cache) = 1
    /\ size_of_cache = 40
    /\ processing_time = 7

\* C12: a bus receive error (the step that leaves recv without taking a
\* message) goes to the flush check of the next iteration and changes neither
\* the cache, the size counter, the batch sequence number nor a monitoring
\* counter.
C12_BusErrorIsTransient ==
    [][ (pc = "recv" /\ pc' # "recv" /\ consumed' = consumed) =>
            /\ pc' = "check"
            /\ edge_cache' = edge_cache
            /\ merged' = merged
            /\ size_of_cache' = size_of_cache
            /\ BATCH_NUMBER' = BATCH_NUMBER
            /\ attempts' = attempts
            /\ processing_time' = processing_time
            /\ total_transferred' = total_transferred ]_vars

C12_Witness ==
    /\ pc = "check"
    /\ batch_size = 100
    /\ last_flush = "ok"
    /\ round.attempts = 1
    /\ edge_cache = EmptyCache

\* C13: a message without payload, or with a payload that does not decode,
\* ends the process: no step follows, so nothing more is received, merged or
\* flushed; a bus receive error goes back to the flush check instead.
C13_UndecodableMessageIsFatal ==
    [][ /\ (RecvNoPayload \/ RecvDecodeErr) =>
                (pc' = "dead" /\ edge_cache' = edge_cache /\ attempts' = attempts)
        /\ pc # "dead"
        /\ RecvErr => pc' = "check" ]_vars

C13_Witness ==
    /\ pc = "dead"
    /\ consumed = 2
    /\ added = 10
    /\ edge_cache # EmptyCache

\* The address has the length its IPv4 or IPv6 tag asks for.
WellFormed(etype, addr) ==
    \/ etype = ETYPE_IPV4 /\ Len(addr) = 4
    \/ etype = ETYPE_IPV6 /\ Len(addr) = 16

\* C14: for a well-formed IPv4 or IPv6 address parse_location returns
\* Inside(address) when some configured range contains the address and
\* Outside when none does; with an empty list every address is Outside and
\* nothing fails; 10.1.2.3 is Inside under [10.0.0.0/8] and 8.8.8.8 is Outside.
C14_ClassificationResult ==
    (p_result # Pending /\ WellFormed(p_etype, p_addr)) =>
        /\ p_result = IF \E i \in 1..Len(cidr_list) : CidrContains(cidr_list[i], p_addr)
                      THEN Some(Inside(p_addr))
                      ELSE Some(Outside)
        /\ cidr_list = <<>> => p_result = Some(Outside)
        /\ (p_addr = <<10, 1, 2, 3>> /\ cidr_list # <<>>) =>
                p_result = Some([variant |-> "Inside", ip |-> <<10, 1, 2, 3>>])
        /\ p_addr = <<8, 8, 8, 8>> => p_result = Some(Outside)
        /\ (p_addr = V6Inside /\ Len(cidr_list) = 3) => p_result = Some(Inside(V6Inside))

C14_Witness ==
    /\ p_result = Some(Inside(V6Inside))
    /\ p_etype = ETYPE_IPV6
    /\ Len(cidr_list) = 3

\* The start of the 300-second window t lies in, without division.
WindowStart(t) == CHOOSE b \in 0..t : b % 300 = 0 /\ b <= t /\ t < b + 300

\* t1 and t2 lie in the same 300-second-aligned window.
SameWindow(t1, t2) ==
    \E w \in 0..(MaxTime \div 300) :
        /\ 300 * w <= t1 /\ t1 < 300 * w + 300
        /\ 300 * w <= t2 /\ t2 < 300 * w + 300

\* The bucket function on 0..MaxTime: a multiple of 300 at most t and less
\* than 300 below it, idempotent, monotonic, equal within a window and
\* different 300 seconds later.
BucketLaws ==
    /\ \A t \in 0..MaxTime :
            /\ TimeBucket(t) = WindowStart(t)
            /\ TimeBucket(TimeBucket(t)) = TimeBucket(t)
            /\ TimeBucket(t + 300) # TimeBucket(t)
    /\ \A t1, t2 \in 0..MaxTime :
            /\ t1 <= t2 => TimeBucket(t1) <= TimeBucket(t2)
            /\ SameWindow(t1, t2) => TimeBucket(t1) = TimeBucket(t2)

\* C15: the time of every cache key is the start of the 300-second window of
\* the flow start of a record merged under it (a multiple of 300, at most the
\* flow start and less than 300 below it), every merged record is under the
\* key of its window, and the bucket function is idempotent, monotonic, equal
\* within a window and different for times 300 apart.
C15_BucketAlignment ==
    /\ \A k \in DOMAIN edge_cache :
            /\ k.time % 300 = 0
            /\ \E r \in BagToSet(merged) :
                    /\ [RecordKey(r) EXCEPT !.time = k.time] = k
                    /\ k.time <= r.time_flow_start
                    /\ r.time_flow_start < k.time + 300
    /\ \A r \in BagToSet(merged) :
            [RecordKey(r) EXCEPT !.time = WindowStart(r.time_flow_start)] \in DOMAIN edge_cache
    /\ BucketLaws

C15_Witness ==
    /\ \E k1, k2 \in DOMAIN edge_cache : k1.time = 0 /\ k2.time = 300
    /\ \E r \in BagToSet(merged) : r.time_flow_start = 299

\* The bytes that a log line has shown or can still show: what was logged, plus
\* what the counter holds that the reporter has not read yet.
Accounted ==
    logged_sum + (IF rpc = "reset" THEN total_transferred - r_logged.total
                                   ELSE total_transferred)

\* The bytes added by the loop that no log line will show.
Lost == added - Accounted

\* C16: the reporter's load and its store of zero are two steps; the bytes the
\* loop adds between them are wiped by the store without being logged.  Every
\* step keeps the lost amount, except the store of zero, which adds exactly the
\* bytes added since the load; so the logged values plus the counter never
\* exceed the bytes added, and fall short of them after such an interleaving.
C16_ReadThenResetRace ==
    [][/\ Lost' >= 0
       /\ Lost' = Lost + (IF rpc = "reset" /\ rpc' = "sleep"
                          THEN total_transferred - r_logged.total
                          ELSE 0)]_vars

C16_Witness ==
    /\ rpc = "sleep"
    /\ total_transferred = 0
    /\ logged_sum + total_transferred < added

\* C17: a reporter step leaves the cache, the size counter, the processing-time
\* counter, the batch number, the loop's position, the batch in flight and the
\* sink as they were, so the flush decision is the same before and after it;
\* of the shared counters it writes total_transferred only, and only with zero.
C17_ReporterFrame ==
    [][(rpc' # rpc) =>
            /\ UNCHANGED << edge_cache, size_of_cache, processing_time, BATCH_NUMBER >>
            /\ UNCHANGED << pc, batch, attempts, last_flush, sink, batch_size, cidr_list >>
            /\ FlushDue(size_of_cache', batch_size') = FlushDue(size_of_cache, batch_size)
            /\ total_transferred' \in {total_transferred, 0}]_vars

C17_Witness ==
    /\ rpc = "sleep"
    /\ r_logged.total > 0
    /\ total_transferred = 0
    /\ size_of_cache > 0
    /\ edge_cache # EmptyCache
    /\ BATCH_NUMBER > 0

\* The sink row with primary key pk was written for the cache key k.
RowOfKey(pk, k) ==
    /\ pk.source = DebugFmt(k.source)
    /\ pk.target = DebugFmt(k.target)
    /\ pk.src_vlan = ToString(k.src_vlan)
    /\ pk.dst_vlan = ToString(k.dst_vlan)
    /\ pk.proto = ToString(k.proto)
    /\ pk.timestamp.coef = k.time

RECURSIVE SinkSum(_, _)
SinkSum(S, field) ==
    IF S = {} THEN 0
    ELSE LET pk == CHOOSE x \in S : TRUE
         IN sink[pk][field] + SinkSum(S \ {pk}, field)

\* C18: with a failed write storing nothing, for every key the packets and the
\* bytes of the rows stored by successful writes plus those of the current
\* cache entry are the sums over all the records merged under the key so far:
\* a failed flush loses nothing and no record is stored by two batches.  Every
\* stored row and every cache entry belongs to the key of a merged record.
C18_NoLossNoDuplication ==
    LET recs == BagToSet(all_merged)
        keys == { RecordKey(r) : r \in recs }
        of_key(k) == { r \in recs : RecordKey(r) = k }
        rows(k) == { pk \in DOMAIN sink : RowOfKey(pk, k) }
        cached(k, field) == IF k \in DOMAIN edge_cache THEN edge_cache[k][field] ELSE 0
    IN /\ \A k \in keys :
            /\ SinkSum(rows(k), "packets") + cached(k, "packets")
                    = BagSum(all_merged, of_key(k), "packets")
            /\ SinkSum(rows(k), "bytes") + cached(k, "bytes")
                    = BagSum(all_merged, of_key(k), "bytes")
       /\ DOMAIN edge_cache \subseteq keys
       /\ \A pk \in DOMAIN sink : \E k \in keys : RowOfKey(pk, k)

C18_Witness ==
    /\ pc = "sleep"
    /\ last_flush = "failed"
    /\ \E k \in DOMAIN edge_cache : \E pk \in DOMAIN sink : RowOfKey(pk, k)

\* C20: with a threshold of at least 1, every flush attempt is made with a
\* non-empty cache and hands the sink at least one point; a batch without
\* points is offered only under a threshold of 0.
C20_NoEmptyFlush ==
    (pc = "write") =>
        /\ batch.points = DataPoints(edge_cache, batch.batch_number)
        /\ (batch_size >= 1) => (edge_cache # EmptyCache /\ batch.points # {})
        /\ (batch.points = {}) => (batch_size = 0)

C20_Witness ==
    /\ pc = "write"
    /\ batch_size >= 1
    /\ Cardinality(batch.points) >= 1
    /\ Len(attempts) >= 2

\* A flush is due, being attempted or waiting for its retry.
FlushPending ==
    \/ pc \in {"write", "sleep"}
    \/ pc = "check" /\ FlushDue(size_of_cache, batch_size)

\* A flush attempt has succeeded and the loop is back at receiving.
Flushed ==
    /\ pc = "recv"
    /\ last_flush = "ok"
    /\ edge_cache = EmptyCache
    /\ size_of_cache = 0

\* The loop is at its top and the model's cap on attempts is used up.
AttemptsUsedUp == pc = "check" /\ BATCH_NUMBER >= MaxAttempts

\* C19: if from some point on no write fails, a pending flush leads to a
\* successful attempt with the cache cleared, the size counter reset and the
\* loop receiving again (within the attempts the model allows); the loop does
\* not stay in the retry state.
C19_RetryLiveness ==
    (<>[][~WriteErr]_vars) => (FlushPending ~> (Flushed \/ AttemptsUsedUp))

C19_Witness ==
    /\ Flushed
    /\ round.fails >= 2
    /\ batch.points # {}

====
